---------------------------- MODULE Spec2Model ----------------------------
(***************************************************************************)
(* Model of the frame field dispatcher of mouette                          *)
(* (src/mouette/processing/framefield/framefield_main.py).                 *)
(*                                                                         *)
(* One call of an entry point is one action: it validates the arguments,   *)
(* then either raises an error or constructs one builder and returns it.   *)
(* Python values are records [ty |-> <type name>, v |-> <value>]; None is  *)
(* the record [ty |-> "NoneType"].  A builder is the record of a           *)
(* constructor call: its class and the arguments the call site hands it,   *)
(* keyed by the name of the dispatcher argument that is passed.            *)
(***************************************************************************)
EXTENDS Integers, Sequences, FiniteSets, TLC

VARIABLES
    pc,       \* "idle" before the call, then "returned" or "raised"
    fn,       \* the entry point called: "none", "SurfaceFrameField", "VolumeFrameField"
    args,     \* the arguments of the call
    result,   \* the value returned, or the error raised
    built,    \* the builders constructed during the call, in order
    emitted,  \* the messages the dispatcher has emitted (log, warning, print)
    smooth,   \* the smoothing run of the returned builder
    \* CotanEmbedding (src/mouette/processing/parametrization/cotan_emb.py)
    cpc,        \* "none" (no object), "ready" (no run in progress), "alternate" (in
                \* the loop of _optimize_alternate), "optimized" (the optimizer returned)
    cmesh,      \* self.mesh
    uvs,        \* self.uvs: one (u, v) per vertex, or per face corner
    on_corners, \* self.on_corners
    flat_mesh,  \* self.flat_mesh: None, or the vertex coordinates of the flat mesh
    mode,       \* argument mode of the current (or last) run()
    tutte,      \* argument tutte_if_convex of the current (or last) run()
    var,        \* local of run(): the variable vector, u of every vertex, then v
    n_iter,     \* local of _optimize_alternate
    outcome,    \* of the last run(): "none", "running", "completed", or the message raised
    pre,        \* self.uvs and self.flat_mesh as they were when the last run() was called
    completed   \* some run() has completed without raising

dispatchvars == <<pc, fn, args, result, built, emitted, smooth>>

cotanvars == <<cpc, cmesh, uvs, on_corners, flat_mesh, mode, tutte, var, n_iter,
               outcome, pre, completed>>

vars == <<dispatchvars, cotanvars>>

---------------------------------------------------------------------------
(* Bounds of the input space *)

MaxOrder == 2      \* order ranges over the ints 0..MaxOrder
MaxSmooth == 1     \* n_smooth ranges over the ints -1..MaxSmooth
MaxWeight == 1     \* smooth_attach_weight ranges over the floats -1..MaxWeight
MaxIndex == 1      \* a singularity index ranges over 0..MaxIndex
MaxCoord == 2      \* a free uv coordinate ranges over 0..MaxCoord

---------------------------------------------------------------------------
(* Python values *)

PyNone == [ty |-> "NoneType"]
PyInt(n) == [ty |-> "int", v |-> n]
PyFloat(x) == [ty |-> "float", v |-> x]
PyStr(s) == [ty |-> "str", v |-> s]

IsNone(x) == x.ty = "NoneType"

\* The meshes a caller may hand over; euler is the Euler characteristic.
Meshes == { [ty |-> "SurfaceMesh", euler |-> 1], [ty |-> "VolumeMesh", euler |-> 1] }

ElementsValues == { PyStr("vertices"), PyStr("faces"), PyStr("cells"), PyNone }
\* Ints, and two floats (one at most 1, one above) that fail the int check.
OrderValues == { PyInt(n) : n \in 0..MaxOrder } \cup { PyFloat(1), PyFloat(MaxOrder) }
\* Ints, and two floats (one negative, one not) that fail the int check.
SmoothValues == { PyInt(n) : n \in -1..MaxSmooth } \cup { PyFloat(-1), PyFloat(MaxSmooth) }
WeightValues == { PyNone } \cup { PyFloat(x) : x \in -1..MaxWeight }
\* An attribute holding one singularity index per element of the dual domain.
IndexValues == { PyNone } \cup { [ty |-> "Attribute", v |-> f] : f \in [1..2 -> 0..MaxIndex] }
ConnectionValues == { PyNone, [ty |-> "SurfaceConnection", v |-> "custom"] }
FeatureValues == { PyNone, [ty |-> "FeatureEdgeDetector", v |-> "custom"] }

SurfaceArgs ==
    [ mesh : Meshes, elements : ElementsValues, order : OrderValues,
      features : BOOLEAN, n_smooth : SmoothValues,
      smooth_attach_weight : WeightValues, use_cotan : BOOLEAN,
      cad_correction : BOOLEAN, verbose : BOOLEAN,
      singularity_indices : IndexValues,
      custom_connection : ConnectionValues, custom_feature : FeatureValues ]

VolumeArgs ==
    [ mesh : Meshes, elements : ElementsValues, features : BOOLEAN,
      n_smooth : SmoothValues, smooth_attach_weight : WeightValues,
      verbose : BOOLEAN, custom_boundary_features : FeatureValues ]

NoArgs == [none |-> TRUE]

---------------------------------------------------------------------------
(* Errors *)

NoError == [cls |-> "none"]
IsError(e) == e.cls # "none"

InvalidRangeArgumentError(name, value, allowed) ==
    [cls |-> "InvalidRangeArgumentError", name |-> name, value |-> value, allowed |-> allowed]

InvalidArgumentError(name, value, allowed) ==
    [cls |-> "InvalidArgumentError", name |-> name, value |-> value, allowed |-> allowed]

\* @allowed_mesh_types(T): the call is rejected unless the mesh is a T.
allowed_mesh_types(typ, mesh) ==
    IF mesh.ty # typ THEN InvalidArgumentError("mesh", mesh, typ) ELSE NoError

\* check_argument(name, value, typ, allowed_values): the value is of type typ
\* and, when allowed_values is given (non-empty here), one of them.
check_argument(name, value, typ, allowed) ==
    IF value.ty # typ THEN InvalidArgumentError(name, value, typ)
    ELSE IF allowed # {} /\ value.v \notin allowed
         THEN InvalidArgumentError(name, value, "allowed values")
         ELSE NoError

\* The first error of a sequence of checks, NoError when all pass.
RECURSIVE FirstError(_)
FirstError(checks) ==
    IF checks = <<>> THEN NoError
    ELSE IF IsError(Head(checks)) THEN Head(checks)
         ELSE FirstError(Tail(checks))

---------------------------------------------------------------------------
(* SurfaceFrameField *)

SurfaceElements == {"vertices", "faces"}

\* Mutant: the bound of the docstring ('order' should be >= 1).
OrderOutOfRange_Docstring(order) == order.v < 1

OrderOutOfRange(order) == order.v <= 1

SmoothOutOfRange(n_smooth) == n_smooth.v < 0

WeightOutOfRange(w) == (~IsNone(w)) /\ w.v <= 0

\* Poincare-Hopf for a given attribute: the indices sum to the Euler
\* characteristic of the mesh times the order of the field.
PoincareHopf(a) ==
    a.singularity_indices.v[1] + a.singularity_indices.v[2] = a.mesh.euler * a.order.v

\* Mutant: the order checks moved before the elements check.
SurfaceValidate_OrderFirst(a) ==
    LET e1 == check_argument("elements", a.elements, "str", SurfaceElements)
        e2 == check_argument("order", a.order, "int", {})
        e4 == check_argument("n_smooth", a.n_smooth, "int", {})
    IN  IF IsError(e2) THEN e2
        ELSE IF OrderOutOfRange(a.order)
             THEN InvalidRangeArgumentError("order", a.order, ">1")
        ELSE IF IsError(e1) THEN e1
        ELSE IF IsError(e4) THEN e4
        ELSE IF SmoothOutOfRange(a.n_smooth)
             THEN InvalidRangeArgumentError("n_smooth", a.n_smooth, ">=0")
        ELSE IF WeightOutOfRange(a.smooth_attach_weight)
             THEN InvalidRangeArgumentError("smooth_attach_weight", a.smooth_attach_weight, ">=0")
        ELSE NoError

\* Mutant: given singularity indices are checked against Poincare-Hopf and
\* rejected when they violate it.
SurfaceValidate_PoincareHopf(a) ==
    LET e1 == check_argument("elements", a.elements, "str", SurfaceElements)
        e2 == check_argument("order", a.order, "int", {})
        e4 == check_argument("n_smooth", a.n_smooth, "int", {})
    IN  IF IsError(e1) THEN e1
        ELSE IF IsError(e2) THEN e2
        ELSE IF OrderOutOfRange(a.order)
             THEN InvalidRangeArgumentError("order", a.order, ">1")
        ELSE IF IsError(e4) THEN e4
        ELSE IF SmoothOutOfRange(a.n_smooth)
             THEN InvalidRangeArgumentError("n_smooth", a.n_smooth, ">=0")
        ELSE IF WeightOutOfRange(a.smooth_attach_weight)
             THEN InvalidRangeArgumentError("smooth_attach_weight", a.smooth_attach_weight, ">=0")
        ELSE IF (~IsNone(a.singularity_indices)) /\ ~PoincareHopf(a)
             THEN InvalidArgumentError("singularity_indices", a.singularity_indices, "Poincare-Hopf")
        ELSE NoError

\* Lines 83-89: the checks in program order; the first failing one raises.
\* A range check is evaluated only when the type check before it passed.
SurfaceValidate(a) ==
    LET e1 == check_argument("elements", a.elements, "str", SurfaceElements)
        e2 == check_argument("order", a.order, "int", {})
        e4 == check_argument("n_smooth", a.n_smooth, "int", {})
    IN  IF IsError(e1) THEN e1
        ELSE IF IsError(e2) THEN e2
        ELSE IF OrderOutOfRange(a.order)
             THEN InvalidRangeArgumentError("order", a.order, ">1")
        ELSE IF IsError(e4) THEN e4
        ELSE IF SmoothOutOfRange(a.n_smooth)
             THEN InvalidRangeArgumentError("n_smooth", a.n_smooth, ">=0")
        ELSE IF WeightOutOfRange(a.smooth_attach_weight)
             THEN InvalidRangeArgumentError("smooth_attach_weight", a.smooth_attach_weight, ">=0")
        ELSE NoError

TrivialConnectionVertices(a) ==
    [ cls |-> "TrivialConnectionVertices",
      given |-> [ mesh |-> a.mesh, singularity_indices |-> a.singularity_indices,
                  order |-> a.order, verbose |-> a.verbose, use_cotan |-> a.use_cotan,
                  cad_correction |-> a.cad_correction,
                  custom_connection |-> a.custom_connection,
                  custom_feature |-> a.custom_feature ] ]

\* Mutant: n_smooth is not forwarded; the builder gets the default of line 21.
FrameField2DVertices_DefaultSmooth(a) ==
    [ cls |-> "FrameField2DVertices",
      given |-> [ mesh |-> a.mesh, order |-> a.order, features |-> a.features,
                  verbose |-> a.verbose, n_smooth |-> PyInt(10),
                  smooth_attach_weight |-> a.smooth_attach_weight,
                  use_cotan |-> a.use_cotan,
                  custom_connection |-> a.custom_connection,
                  custom_feature |-> a.custom_feature ] ]

FrameField2DVertices(a) ==
    [ cls |-> "FrameField2DVertices",
      given |-> [ mesh |-> a.mesh, order |-> a.order, features |-> a.features,
                  verbose |-> a.verbose, n_smooth |-> a.n_smooth,
                  smooth_attach_weight |-> a.smooth_attach_weight,
                  use_cotan |-> a.use_cotan,
                  custom_connection |-> a.custom_connection,
                  custom_feature |-> a.custom_feature ] ]

TrivialConnectionFaces(a) ==
    [ cls |-> "TrivialConnectionFaces",
      given |-> [ mesh |-> a.mesh, singularity_indices |-> a.singularity_indices,
                  order |-> a.order, verbose |-> a.verbose,
                  custom_connection |-> a.custom_connection,
                  custom_feature |-> a.custom_feature ] ]

FrameField2DFaces(a) ==
    [ cls |-> "FrameField2DFaces",
      given |-> [ mesh |-> a.mesh, order |-> a.order, features |-> a.features,
                  verbose |-> a.verbose, n_smooth |-> a.n_smooth,
                  smooth_attach_weight |-> a.smooth_attach_weight,
                  use_cotan |-> a.use_cotan,
                  custom_connection |-> a.custom_connection,
                  custom_feature |-> a.custom_feature ] ]

\* Mutant: the test on singularity_indices inverted for the vertex domain.
SurfaceBuild_InvertedTest(a) ==
    IF a.elements.v = "vertices"
    THEN IF IsNone(a.singularity_indices)
         THEN <<TrivialConnectionVertices(a)>>
         ELSE <<FrameField2DVertices(a)>>
    ELSE IF a.elements.v = "faces"
    THEN IF ~IsNone(a.singularity_indices)
         THEN <<TrivialConnectionFaces(a)>>
         ELSE <<FrameField2DFaces(a)>>
    ELSE <<>>

\* Lines 91-100: the builders constructed, in order (at most one); the
\* function returns the builder, or None when it falls off its end.
SurfaceBuild(a) ==
    IF a.elements.v = "vertices"
    THEN IF ~IsNone(a.singularity_indices)
         THEN <<TrivialConnectionVertices(a)>>
         ELSE <<FrameField2DVertices(a)>>
    ELSE IF a.elements.v = "faces"
    THEN IF ~IsNone(a.singularity_indices)
         THEN <<TrivialConnectionFaces(a)>>
         ELSE <<FrameField2DFaces(a)>>
    ELSE <<>>

Returned(bs) == IF bs = <<>> THEN PyNone ELSE bs[Len(bs)]

SurfaceFrameField ==
    /\ pc = "idle"
    /\ \E a \in SurfaceArgs :
         LET err == FirstError(<<allowed_mesh_types("SurfaceMesh", a.mesh), SurfaceValidate(a)>>)
         IN  /\ fn' = "SurfaceFrameField"
             /\ args' = a
             /\ IF IsError(err)
                THEN /\ pc' = "raised"
                     /\ result' = err
                     /\ built' = <<>>
                ELSE /\ pc' = "returned"
                     /\ built' = SurfaceBuild(a)
                     /\ result' = Returned(SurfaceBuild(a))
    /\ UNCHANGED <<emitted, smooth, cotanvars>>

---------------------------------------------------------------------------
(* VolumeFrameField *)

VolumeElements == {"vertices", "cells"}

VolumeValidate(a) == check_argument("elements", a.elements, "str", VolumeElements)

FrameField3DVertices(a) ==
    [ cls |-> "FrameField3DVertices",
      given |-> [ mesh |-> a.mesh, features |-> a.features, verbose |-> a.verbose,
                  n_smooth |-> a.n_smooth,
                  smooth_attach_weight |-> a.smooth_attach_weight,
                  custom_boundary_features |-> a.custom_boundary_features ] ]

FrameField3DCells(a) ==
    [ cls |-> "FrameField3DCells",
      given |-> [ mesh |-> a.mesh, features |-> a.features, verbose |-> a.verbose,
                  n_smooth |-> a.n_smooth,
                  smooth_attach_weight |-> a.smooth_attach_weight,
                  custom_boundary_features |-> a.custom_boundary_features ] ]

\* Mutant: the cell domain served by the vertex builder.
VolumeBuild_CellsAsVertices(a) ==
    IF a.elements.v = "vertices" THEN <<FrameField3DVertices(a)>>
    ELSE IF a.elements.v = "cells" THEN <<FrameField3DVertices(a)>>
    ELSE <<>>

\* Lines 114-119: the builders constructed, in order (at most one).
VolumeBuild(a) ==
    IF a.elements.v = "vertices" THEN <<FrameField3DVertices(a)>>
    ELSE IF a.elements.v = "cells" THEN <<FrameField3DCells(a)>>
    ELSE <<>>

VolumeFrameField ==
    /\ pc = "idle"
    /\ \E a \in VolumeArgs :
         LET err == FirstError(<<allowed_mesh_types("VolumeMesh", a.mesh), VolumeValidate(a)>>)
         IN  /\ fn' = "VolumeFrameField"
             /\ args' = a
             /\ IF IsError(err)
                THEN /\ pc' = "raised"
                     /\ result' = err
                     /\ built' = <<>>
                ELSE /\ pc' = "returned"
                     /\ built' = VolumeBuild(a)
                     /\ result' = Returned(VolumeBuild(a))
    /\ UNCHANGED <<emitted, smooth, cotanvars>>

---------------------------------------------------------------------------
(* Smoothing optimizer of the surface smoothing builders.  The field is one
   angle per element (two elements here); the first element is locked to its
   feature direction when the builder is given features=True. *)

NoSmoothing == [phase |-> "none"]

SmoothingBuilders == {"FrameField2DVertices", "FrameField2DFaces"}

\* The initial, feature-respecting field.
InitialField(b) == <<0, 4>>

Locked(b, i) == b.given.features /\ i = 1

\* One smoothing iteration: every free element moves to the mean of the
\* field, locked elements keep their angle.
SmoothStep(b, f) ==
    [i \in 1..2 |-> IF Locked(b, i) THEN f[i] ELSE (f[1] + f[2]) \div 2]

\* The builder that was returned starts its smoothing run.
SmoothStart ==
    /\ pc = "returned"
    /\ fn = "SurfaceFrameField"
    /\ result.cls \in SmoothingBuilders
    /\ smooth.phase = "none"
    /\ smooth' = [phase |-> "smoothing", iters |-> 0,
                  initial |-> InitialField(result), field |-> InitialField(result)]
    /\ UNCHANGED <<pc, fn, args, result, built, emitted, cotanvars>>

\* One iteration, while the budget n_smooth the builder was given lasts.
SmoothIterate ==
    /\ smooth.phase = "smoothing"
    /\ smooth.iters < result.given.n_smooth.v
    /\ smooth' = [smooth EXCEPT !.iters = @ + 1, !.field = SmoothStep(result, @)]
    /\ UNCHANGED <<pc, fn, args, result, built, emitted, cotanvars>>

\* The budget is used up: the current iterate is the output.
SmoothFinish ==
    /\ smooth.phase = "smoothing"
    /\ ~(smooth.iters < result.given.n_smooth.v)
    /\ smooth' = [phase |-> "done", iters |-> smooth.iters,
                  initial |-> smooth.initial, field |-> smooth.field,
                  output |-> smooth.field]
    /\ UNCHANGED <<pc, fn, args, result, built, emitted, cotanvars>>

---------------------------------------------------------------------------
(* CotanEmbedding: meshes.  Vertices are 0..nv-1; a face is the tuple of its
   vertices; face corners are numbered 1.. in the order of the faces. *)

Vertices(m) == 0..(m.nv - 1)

FaceEdges(f) == { {f[i], f[(i % Len(f)) + 1]} : i \in 1..Len(f) }

Edges(faces) == UNION { FaceEdges(faces[k]) : k \in 1..Len(faces) }

\* A vertex is on the border when one of its edges has a single face.
OnBorder(faces, v) ==
    \E e \in Edges(faces) :
        /\ v \in e
        /\ Cardinality({ k \in 1..Len(faces) : e \in FaceEdges(faces[k]) }) = 1

RECURSIVE Flatten(_)
Flatten(fs) == IF fs = <<>> THEN <<>> ELSE Head(fs) \o Flatten(Tail(fs))

\* A surface mesh with its connectivity: the Euler characteristic, the
\* vertices on the border and the vertex of every face corner.
SurfaceMesh(nv, faces) ==
    [ nv |-> nv, faces |-> faces,
      euler |-> nv - Cardinality(Edges(faces)) + Len(faces),
      border |-> { v \in 0..(nv - 1) : OnBorder(faces, v) },
      corners |-> Flatten(faces) ]

\* A disk: three boundary vertices around the interior vertex 3.
FanMesh == SurfaceMesh(4, << <<0, 1, 3>>, <<1, 2, 3>>, <<2, 0, 3>> >>)
\* A disk that is not triangular: one quad.
QuadMesh == SurfaceMesh(4, << <<0, 1, 2, 3>> >>)
\* Triangular, not a disk: a closed tetrahedron.
TetraMesh == SurfaceMesh(4, << <<0, 1, 2>>, <<0, 1, 3>>, <<1, 2, 3>>, <<2, 0, 3>> >>)
\* Neither: a quad and an isolated vertex.
QuadPointMesh == SurfaceMesh(5, << <<0, 1, 2, 3>> >>)

CotanMeshes == {FanMesh, QuadMesh, TetraMesh, QuadPointMesh}

euler_characteristic(m) == m.euler

is_triangular(m) == \A k \in 1..Len(m.faces) : Len(m.faces[k]) = 3

is_vertex_on_border(m, v) == v \in m.border

interior_vertices(m) == Vertices(m) \ m.border

boundary_vertices(m) == m.border

\* mesh.face_corners: the vertex of every corner.
face_corners(m) == m.corners

---------------------------------------------------------------------------
(* CotanEmbedding: construction *)

Grid == 0..MaxCoord

\* The uv of a vertex in the parametrization handed to the constructor:
\* vertices 0, 1, 2 are pinned, vertex 3 is at p.
VertexUV(p, v) ==
    CASE v = 0 -> <<0, 0>>
      [] v = 1 -> <<0, 2>>
      [] v = 2 -> <<2, 0>>
      [] v = 3 -> p
      [] OTHER -> <<0, 0>>

\* The uv attributes a caller may hand over.  On corners, the attribute may
\* hold a seam: corner 2 (on vertex 1) differs from the other corners of
\* its vertex.
UVAttributes(m, on_corner) ==
    IF on_corner
    THEN LET fc == face_corners(m)
         IN  { [c \in 1..Len(fc) |->
                    IF seam /\ c = 2 THEN <<0, 1>> ELSE VertexUV(p, fc[c])]
               : p \in Grid \X Grid, seam \in BOOLEAN }
    ELSE { [v \in Vertices(m) |-> VertexUV(p, v)] : p \in Grid \X Grid }

NoVar == <<>>

\* Lines 31-36.
CotanEmbedding__init__ ==
    /\ cpc = "none"
    /\ \E m \in CotanMeshes, on_corner \in BOOLEAN :
         \E uv_attr \in UVAttributes(m, on_corner) :
            /\ cmesh' = m
            /\ flat_mesh' = PyNone
            /\ uvs' = uv_attr
            /\ on_corners' = on_corner
            /\ pre' = [uvs |-> uv_attr, flat_mesh |-> PyNone]
    /\ cpc' = "ready"
    /\ UNCHANGED <<mode, tutte, var, n_iter, outcome, completed, dispatchvars>>

---------------------------------------------------------------------------
(* CotanEmbedding.run *)

Modes == {"bfgs", "alternate", "newton"}

\* Mutant: the triangle check made before the disk check.
RunChecks_TriangularFirst(m, md) ==
    IF ~is_triangular(m)
    THEN "Mesh is not triangular."
    ELSE IF euler_characteristic(m) # 1
    THEN "Mesh is not a topological disk. Cannot run parametrization."
    ELSE IF md \notin {"bfgs", "alternate"}
    THEN "CotanEmbedding mode should either be 'bfgs' or 'alternate'"
    ELSE "ok"

\* Lines 82-88: the message raised, "ok" when every check passes.
RunChecks(m, md) ==
    IF euler_characteristic(m) # 1
    THEN "Mesh is not a topological disk. Cannot run parametrization."
    ELSE IF ~is_triangular(m)
    THEN "Mesh is not triangular."
    ELSE IF md \notin {"bfgs", "alternate"}
    THEN "CotanEmbedding mode should either be 'bfgs' or 'alternate'"
    ELSE "ok"

\* Lines 94-96: the corners are read in order, a later corner of a vertex
\* overwrites what an earlier one wrote.
RECURSIVE ReadCorners(_, _, _, _)
ReadCorners(m, uv, x, c) ==
    IF c > Len(uv) THEN x
    ELSE LET v == face_corners(m)[c]
         IN  ReadCorners(m, uv,
                 [x EXCEPT ![v] = uv[c][1], ![m.nv + v] = uv[c][2]], c + 1)

\* Lines 91-100: the variable vector read from the uv attribute.
InitVar(m, uv, on_corner) ==
    LET zeros == [i \in 0..(2 * m.nv - 1) |-> 0]
    IN  IF on_corner
        THEN ReadCorners(m, uv, zeros, 1)
        ELSE [i \in 0..(2 * m.nv - 1) |->
                IF i < m.nv THEN uv[i][1] ELSE uv[i - m.nv][2]]

\* Lines 109-115: the uv attribute written from the variable vector.
WriteUVs(m, x, on_corner) ==
    IF on_corner
    THEN LET fc == face_corners(m)
         IN  [c \in 1..Len(fc) |-> <<x[fc[c]], x[m.nv + fc[c]]>>]
    ELSE [v \in Vertices(m) |-> <<x[v], x[m.nv + v]>>]

\* Lines 204-209: a copy of the mesh whose vertices are at (u, v, 0).
build_flat_mesh(m, x) ==
    [ ty |-> "SurfaceMesh", faces |-> m.faces,
      vertices |-> [v \in Vertices(m) |-> <<x[v], x[m.nv + v], 0>>] ]

\* A check of lines 82-88 fails: run() raises and touches nothing.
run_raises ==
    /\ cpc = "ready"
    /\ \E md \in Modes, tu \in BOOLEAN :
         /\ RunChecks(cmesh, md) # "ok"
         /\ mode' = md
         /\ tutte' = tu
         /\ outcome' = RunChecks(cmesh, md)
    /\ pre' = [uvs |-> uvs, flat_mesh |-> flat_mesh]
    /\ UNCHANGED <<cpc, cmesh, uvs, on_corners, flat_mesh, var, n_iter, completed,
                   dispatchvars>>

\* Mutant: the border test left out for vertex 0.
energy_grad_Unguarded(m, raw) ==
    [i \in 0..(2 * m.nv - 1) |->
        IF is_vertex_on_border(m, i % m.nv) /\ (i % m.nv) # 0 THEN 0
        ELSE (IF i < m.nv THEN raw[1] ELSE raw[2])]

\* The gradient _energy returns (lines 48-56 and 69-77): the entries of a
\* vertex on the border are never written and stay 0; the entries of the
\* other vertices are sums of real terms, abstracted to raw = <<du, dv>>.
energy_grad(m, raw) ==
    [i \in 0..(2 * m.nv - 1) |->
        IF is_vertex_on_border(m, i % m.nv) THEN 0
        ELSE (IF i < m.nv THEN raw[1] ELSE raw[2])]

\* Lines 118-141: fmin_l_bfgs_b moves the variables along combinations of the
\* gradients it is handed.
optimize_bfgs(m, x, raw) ==
    LET grad == energy_grad(m, raw)
    IN  [i \in 0..(2 * m.nv - 1) |-> x[i] - grad[i]]

Displacements == (0 - MaxCoord)..MaxCoord

\* run(mode="bfgs") up to the return of _optimize_bfgs (lines 81-104).
run_bfgs ==
    /\ cpc = "ready"
    /\ RunChecks(cmesh, "bfgs") = "ok"
    /\ \E tu \in BOOLEAN : tutte' = tu
    /\ \E raw \in Displacements \X Displacements :
         LET x == optimize_bfgs(cmesh, InitVar(cmesh, uvs, on_corners), raw)
         IN  /\ \A i \in DOMAIN x : x[i] \in Grid
             /\ var' = x
    /\ mode' = "bfgs"
    /\ cpc' = "optimized"
    /\ outcome' = "running"
    /\ pre' = [uvs |-> uvs, flat_mesh |-> flat_mesh]
    /\ UNCHANGED <<cmesh, uvs, on_corners, flat_mesh, n_iter, completed, dispatchvars>>

n_iter_max == 100

\* Lines 152-157: no triangle has a negative determinant.
check_dets(m, x) ==
    \A k \in 1..Len(m.faces) :
        LET A == m.faces[k][1]
            B == m.faces[k][2]
            C == m.faces[k][3]
            uA == x[A]
            vA == x[m.nv + A]
            uB == x[B]
            vB == x[m.nv + B]
            uC == x[C]
            vC == x[m.nv + C]
        IN  ~((uA * (vC - vB) + uB * (vA - vC) + uC * (vB - vA)) < 0)

\* Mutant: the iteration bound off by one.
LoopContinues_OffByOne(m, n, x) == n <= n_iter_max /\ ~check_dets(m, x)

\* Line 172: the loop condition.
LoopContinues(m, n, x) == n < n_iter_max /\ ~check_dets(m, x)

\* Lines 200-201: the solutions of the two linear systems are written to the
\* entries of the interior vertices; sol gives the (u, v) solved for each.
SolveInterior(m, x, sol) ==
    [i \in 0..(2 * m.nv - 1) |->
        IF (i % m.nv) \in DOMAIN sol
        THEN (IF i < m.nv THEN sol[i][1] ELSE sol[i - m.nv][2])
        ELSE x[i]]

\* run(mode="alternate") up to the loop of _optimize_alternate (lines 81-106,
\* 159-170).
run_alternate ==
    /\ cpc = "ready"
    /\ RunChecks(cmesh, "alternate") = "ok"
    /\ \E tu \in BOOLEAN : tutte' = tu
    /\ mode' = "alternate"
    /\ var' = InitVar(cmesh, uvs, on_corners)
    /\ n_iter' = 0
    /\ cpc' = "alternate"
    /\ outcome' = "running"
    /\ pre' = [uvs |-> uvs, flat_mesh |-> flat_mesh]
    /\ UNCHANGED <<cmesh, uvs, on_corners, flat_mesh, completed, dispatchvars>>

\* One iteration of the loop (lines 172-201).  The cotangent weights and the
\* solve are real arithmetic: any point of the grid may be the solution.
alternate_iterate ==
    /\ cpc = "alternate"
    /\ LoopContinues(cmesh, n_iter, var)
    /\ n_iter' = n_iter + 1
    /\ \E sol \in [interior_vertices(cmesh) -> Grid \X Grid] :
         var' = SolveInterior(cmesh, var, sol)
    /\ UNCHANGED <<cpc, cmesh, uvs, on_corners, flat_mesh, mode, tutte, outcome,
                   pre, completed, dispatchvars>>

\* The loop ends and _optimize_alternate returns (line 202).
alternate_return ==
    /\ cpc = "alternate"
    /\ ~LoopContinues(cmesh, n_iter, var)
    /\ cpc' = "optimized"
    /\ UNCHANGED <<cmesh, uvs, on_corners, flat_mesh, mode, tutte, var, n_iter,
                   outcome, pre, completed, dispatchvars>>

\* run() writes the uv attribute, builds the flat mesh and returns (lines
\* 108-116); its locals are gone.
run_finish ==
    /\ cpc = "optimized"
    /\ uvs' = WriteUVs(cmesh, var, on_corners)
    /\ flat_mesh' = build_flat_mesh(cmesh, var)
    /\ outcome' = "completed"
    /\ completed' = TRUE
    /\ cpc' = "ready"
    /\ var' = NoVar
    /\ n_iter' = 0
    /\ UNCHANGED <<cmesh, on_corners, mode, tutte, pre, dispatchvars>>

---------------------------------------------------------------------------
(* Specification *)

Init ==
    /\ pc = "idle"
    /\ fn = "none"
    /\ args = NoArgs
    /\ result = PyNone
    /\ built = <<>>
    /\ emitted = <<>>
    /\ smooth = NoSmoothing
    /\ cpc = "none"
    /\ cmesh = SurfaceMesh(0, <<>>)
    /\ uvs = <<>>
    /\ on_corners = FALSE
    /\ flat_mesh = PyNone
    /\ mode = "bfgs"
    /\ tutte = FALSE
    /\ var = NoVar
    /\ n_iter = 0
    /\ outcome = "none"
    /\ pre = [uvs |-> <<>>, flat_mesh |-> PyNone]
    /\ completed = FALSE

Next ==
    \/ SurfaceFrameField
    \/ VolumeFrameField
    \/ SmoothStart
    \/ SmoothIterate
    \/ SmoothFinish

Spec == Init /\ [][Next]_vars

NextCotan ==
    \/ CotanEmbedding__init__
    \/ run_raises
    \/ run_bfgs
    \/ run_alternate
    \/ alternate_iterate
    \/ alternate_return
    \/ run_finish

SpecCotan == Init /\ [][NextCotan]_vars

---------------------------------------------------------------------------
(* Claims *)

IsSurfaceCall == fn = "SurfaceFrameField"
IsVolumeCall == fn = "VolumeFrameField"

\* The arguments of a SurfaceFrameField call that pass validation, as the
\* specification states them.
SurfaceArgsValid(a) ==
    /\ a.mesh.ty = "SurfaceMesh"
    /\ a.elements \in { PyStr("vertices"), PyStr("faces") }
    /\ a.order.ty = "int" /\ a.order.v > 1
    /\ a.n_smooth.ty = "int" /\ a.n_smooth.v >= 0
    /\ (IsNone(a.smooth_attach_weight) \/ a.smooth_attach_weight.v > 0)

\* The selection table of the specification.
SelectedBuilder(elements, given) ==
    IF elements = "vertices"
    THEN (IF given THEN "TrivialConnectionVertices" ELSE "FrameField2DVertices")
    ELSE (IF given THEN "TrivialConnectionFaces" ELSE "FrameField2DFaces")

\* C1: every SurfaceFrameField call whose arguments pass validation returns,
\* has constructed exactly one builder, returns that builder, and the
\* builder's class is the one the selection table gives for (elements,
\* singularity_indices given?); it never returns None.
C1_ExactlyOneBuilder ==
    (IsSurfaceCall /\ SurfaceArgsValid(args)) =>
        /\ pc = "returned"
        /\ Len(built) = 1
        /\ result = built[1]
        /\ result.cls = SelectedBuilder(args.elements.v, ~IsNone(args.singularity_indices))

C1_Witness ==
    /\ IsSurfaceCall /\ pc = "returned"
    /\ args.order = PyInt(2) /\ args.elements = PyStr("vertices")
    /\ IsNone(args.singularity_indices)
    /\ Len(built) = 1 /\ result.cls = "FrameField2DVertices"

\* A range violation among the arguments of a call.
RangeViolation(a) ==
    \/ a.order.v <= 1
    \/ a.n_smooth.v < 0
    \/ (~IsNone(a.smooth_attach_weight) /\ a.smooth_attach_weight.v <= 0)

EarlierChecksPass(a) ==
    /\ a.mesh.ty = "SurfaceMesh"
    /\ a.elements \in { PyStr("vertices"), PyStr("faces") }
    /\ a.order.ty = "int"
    /\ a.n_smooth.ty = "int"

Admits(allowed, x) ==
    CASE allowed = ">1" -> x > 1
      [] allowed = ">=0" -> x >= 0
      [] allowed = ">0" -> x > 0
      [] OTHER -> FALSE

\* The range the specification states for each parameter.
EnforcedRange(name) ==
    CASE name = "order" -> ">1"
      [] name = "n_smooth" -> ">=0"
      [] name = "smooth_attach_weight" -> ">0"
      [] OTHER -> "none"

\* C3: every out-of-range error carries the name of the offending parameter,
\* its value and the range enforced for it (order > 1, n_smooth >= 0,
\* smooth_attach_weight > 0), so the value it rejects is never in the range
\* it reports as allowed.
C3_ErrorCarriesEnforcedRange ==
    (IsSurfaceCall /\ pc = "raised" /\ result.cls = "InvalidRangeArgumentError") =>
        /\ result.name \in {"order", "n_smooth", "smooth_attach_weight"}
        /\ result.value = args[result.name]
        /\ result.allowed = EnforcedRange(result.name)
        /\ ~Admits(result.allowed, result.value.v)

\* A returned SurfaceFrameField call with cad_correction=True and a custom
\* connection supplied.
CadOverCustom ==
    /\ IsSurfaceCall /\ pc = "returned"
    /\ args.cad_correction
    /\ ~IsNone(args.custom_connection)

\* C4: in every returned SurfaceFrameField call with cad_correction=True and
\* a custom_connection supplied, the constructed builder is handed the
\* cad_correction decision (True), whichever of the four builders is
\* selected, so that it can override the custom connection.
C4_CadCorrectionReachesBuilder ==
    CadOverCustom =>
        /\ Len(built) = 1
        /\ "cad_correction" \in DOMAIN built[1].given
        /\ built[1].given.cad_correction = TRUE

\* C5: in every returned SurfaceFrameField call with cad_correction=True and
\* a custom_connection supplied, a message stating that the custom
\* connection is overridden has been emitted.
C5_PrecedenceDecisionEmitted ==
    CadOverCustom => emitted # <<>>

\* The two names legal for the mesh type of each entry point, as the
\* specification states them.
ElementsLegal ==
    /\ args.elements.ty = "str"
    /\ \/ IsSurfaceCall /\ args.elements.v \in {"vertices", "faces"}
       \/ IsVolumeCall /\ args.elements.v \in {"vertices", "cells"}

MeshOfEntryPoint ==
    \/ IsSurfaceCall /\ args.mesh.ty = "SurfaceMesh"
    \/ IsVolumeCall /\ args.mesh.ty = "VolumeMesh"

VolumeArgsValid(a) ==
    /\ a.mesh.ty = "VolumeMesh"
    /\ a.elements \in { PyStr("vertices"), PyStr("cells") }

\* C7: every valid VolumeFrameField call returns, has constructed exactly
\* one builder, a smoothing builder and never a trivial-connection one:
\* FrameField3DVertices for "vertices", FrameField3DCells for "cells", handed
\* features, n_smooth, smooth_attach_weight and custom_boundary_features
\* unchanged.
C7_VolumeSmoothingOnly ==
    (IsVolumeCall /\ VolumeArgsValid(args)) =>
        /\ pc = "returned"
        /\ Len(built) = 1
        /\ result = built[1]
        /\ result.cls = (IF args.elements.v = "vertices"
                         THEN "FrameField3DVertices" ELSE "FrameField3DCells")
        /\ result.given.features = args.features
        /\ result.given.n_smooth = args.n_smooth
        /\ result.given.smooth_attach_weight = args.smooth_attach_weight
        /\ result.given.custom_boundary_features = args.custom_boundary_features

C7_Witness ==
    /\ IsVolumeCall /\ pc = "returned"
    /\ args.elements = PyStr("cells")
    /\ args.n_smooth = PyInt(1)
    /\ ~IsNone(args.custom_boundary_features)
    /\ Len(built) = 1 /\ result.cls = "FrameField3DCells"
    /\ result.given.custom_boundary_features = args.custom_boundary_features

\* C8: every VolumeFrameField call (on a volume mesh, with legal elements)
\* with n_smooth < 0 or a given smooth_attach_weight <= 0 raises the
\* out-of-range error naming that parameter and constructs no builder.
C8_VolumeRangeChecked ==
    ( /\ IsVolumeCall /\ VolumeArgsValid(args)
      /\ \/ args.n_smooth.v < 0
         \/ (~IsNone(args.smooth_attach_weight) /\ args.smooth_attach_weight.v <= 0) ) =>
        /\ pc = "raised"
        /\ built = <<>>
        /\ result.cls = "InvalidRangeArgumentError"
        /\ result.name \in {"n_smooth", "smooth_attach_weight"}

\* C9: in every returned SurfaceFrameField call with features=False and a
\* custom_feature object supplied, the constructed builder is handed the
\* features flag (False), whichever of the four builders is selected, so
\* that it can ignore the features of the object.
C9_FeaturesFlagReachesBuilder ==
    ( /\ IsSurfaceCall /\ pc = "returned"
      /\ ~args.features
      /\ ~IsNone(args.custom_feature) ) =>
        /\ Len(built) = 1
        /\ "features" \in DOMAIN built[1].given
        /\ built[1].given.features = FALSE

\* C10: every SurfaceFrameField call with singularity indices given and
\* otherwise valid arguments raises nothing and returns the
\* trivial-connection builder of the requested domain, handed the indices
\* unmodified, whether or not they satisfy Poincare-Hopf.
C10_IndicesPassedUninspected ==
    (IsSurfaceCall /\ SurfaceArgsValid(args) /\ ~IsNone(args.singularity_indices)) =>
        /\ pc = "returned"
        /\ Len(built) = 1
        /\ result = built[1]
        /\ result.cls = (IF args.elements.v = "vertices"
                         THEN "TrivialConnectionVertices" ELSE "TrivialConnectionFaces")
        /\ result.given.singularity_indices = args.singularity_indices

\* Indices that violate Poincare-Hopf reach the face-based builder.
C10_Witness ==
    /\ IsSurfaceCall /\ pc = "returned"
    /\ ~IsNone(args.singularity_indices)
    /\ ~PoincareHopf(args)
    /\ args.elements = PyStr("faces")
    /\ Len(built) = 1 /\ result.cls = "TrivialConnectionFaces"
    /\ result.given.singularity_indices = args.singularity_indices

C11_WitnessZero ==
    /\ smooth.phase = "done"
    /\ args.n_smooth = PyInt(0) /\ smooth.iters = 0
    /\ smooth.output = smooth.initial

\* The last run() of the embedding completed without raising.
RunCompleted == cpc = "ready" /\ outcome = "completed"

\* The last run() of the embedding raised.
RunRaised == cpc = "ready" /\ outcome \notin {"none", "running", "completed"}

\* The last corner of vertex v, in the order of face_corners.
LastCorner(v) ==
    CHOOSE c \in 1..Len(cmesh.corners) :
        /\ cmesh.corners[c] = v
        /\ \A d \in 1..Len(cmesh.corners) : cmesh.corners[d] = v => d <= c

\* C12 as stated: after a run() that completed, in either mode and for
\* either storage, the uv stored for every boundary vertex (on corners: for
\* every corner lying on a boundary vertex) is the value it held before
\* run().
C12_BoundaryValuesKept ==
    RunCompleted =>
        IF on_corners
        THEN \A c \in 1..Len(cmesh.corners) :
                cmesh.corners[c] \in cmesh.border => uvs[c] = pre.uvs[c]
        ELSE \A v \in cmesh.border : uvs[v] = pre.uvs[v]

\* C12 as amended: per vertex the boundary values are kept; on corners, every
\* corner lying on a boundary vertex holds the value the last corner of that
\* vertex held before run(), which is its own former value when the corners
\* of the vertex agreed.
C12_BoundaryVertexKept ==
    RunCompleted =>
        IF on_corners
        THEN \A c \in 1..Len(cmesh.corners) :
                cmesh.corners[c] \in cmesh.border =>
                    /\ uvs[c] = pre.uvs[LastCorner(cmesh.corners[c])]
                    /\ (\A d \in 1..Len(cmesh.corners) :
                            cmesh.corners[d] = cmesh.corners[c] => pre.uvs[d] = pre.uvs[c])
                        => uvs[c] = pre.uvs[c]
        ELSE \A v \in cmesh.border : uvs[v] = pre.uvs[v]

\* A completed run in mode "alternate" that moved the interior vertex of a
\* corner-stored parametrization.
C12_Witness ==
    /\ RunCompleted /\ mode = "alternate" /\ on_corners
    /\ uvs # pre.uvs
    /\ \A c \in 1..Len(cmesh.corners) :
          cmesh.corners[c] \in cmesh.border => uvs[c] = pre.uvs[c]

\* The message run() must raise for a mesh and a mode, by the precedence
\* disk, triangles, mode; "ok" when it must not raise.
ExpectedFailure(m, md) ==
    IF m.nv - Cardinality(Edges(m.faces)) + Len(m.faces) # 1
    THEN "Mesh is not a topological disk. Cannot run parametrization."
    ELSE IF \E k \in 1..Len(m.faces) : Len(m.faces[k]) # 3
    THEN "Mesh is not triangular."
    ELSE IF md # "bfgs" /\ md # "alternate"
    THEN "CotanEmbedding mode should either be 'bfgs' or 'alternate'"
    ELSE "ok"

\* C13: a run() on a mesh that is not a disk, or not triangular, or with a
\* mode other than "bfgs" / "alternate" raises, with that precedence, and
\* leaves the uv attribute and flat_mesh as they were (flat_mesh None when
\* no run completed before); no run raises otherwise before it has written;
\* flat_mesh is not None only after some run() completed.
C13_ChecksBeforeWork ==
    /\ (outcome # "none") =>
          IF ExpectedFailure(cmesh, mode) # "ok"
          THEN /\ RunRaised
               /\ outcome = ExpectedFailure(cmesh, mode)
          ELSE outcome \in {"running", "completed"}
    /\ RunRaised =>
          /\ uvs = pre.uvs
          /\ flat_mesh = pre.flat_mesh
          /\ (~completed => flat_mesh = PyNone)
    /\ (outcome = "running") => (uvs = pre.uvs /\ flat_mesh = pre.flat_mesh)
    /\ (flat_mesh # PyNone) => completed

\* A mesh that is neither a disk nor triangular, run with an unknown mode:
\* the disk message is raised and nothing is touched.
C13_Witness ==
    /\ RunRaised
    /\ cmesh = QuadPointMesh /\ mode = "newton"
    /\ outcome = "Mesh is not a topological disk. Cannot run parametrization."
    /\ uvs = pre.uvs /\ flat_mesh = PyNone

\* No triangle of the mesh has a negative checked determinant at x.
NoNegativeDet(m, x) ==
    \A k \in 1..Len(m.faces) :
        LET f == m.faces[k]
        IN  x[f[1]] * (x[m.nv + f[3]] - x[m.nv + f[2]])
              + x[f[2]] * (x[m.nv + f[1]] - x[m.nv + f[3]])
              + x[f[3]] * (x[m.nv + f[2]] - x[m.nv + f[1]]) >= 0

InAlternate == cpc \in {"alternate", "optimized"} /\ mode = "alternate"

\* What holds of the loop of _optimize_alternate at every moment.
C14_LoopInvariant ==
    /\ InAlternate => n_iter <= 100
    /\ (InAlternate /\ cpc = "optimized") =>
          /\ (n_iter < 100 => NoNegativeDet(cmesh, var))
          /\ (NoNegativeDet(cmesh, InitVar(cmesh, uvs, on_corners)) => n_iter = 0)

\* What every step of the loop does: a pass spends one of the 100
\* iterations, and leaving the loop returns the coordinates as they are.
C14_LoopStep ==
    (cpc = "alternate") =>
        \/ cpc' = "alternate" /\ n_iter < 100 /\ n_iter' = n_iter + 1
        \/ cpc' = "optimized" /\ n_iter' = n_iter /\ var' = var

\* C14: the loop of _optimize_alternate never makes more than 100
\* iterations and every pass spends one of them, so it ends; when it
\* returns, it has made none if the initial coordinates pass the
\* determinant check, and if it has made fewer than 100 every triangle
\* passes the check.
C14_AlternateLoopBounded == [](C14_LoopInvariant) /\ [][C14_LoopStep]_vars

\* The loop returned after some, but fewer than 100, iterations.
C14_Witness ==
    /\ InAlternate /\ cpc = "optimized"
    /\ n_iter > 0 /\ n_iter < 100
    /\ NoNegativeDet(cmesh, var)

\* The loop used its whole budget and returned with a triangle that fails
\* the check.
C14_WitnessBudget ==
    /\ InAlternate /\ cpc = "optimized"
    /\ n_iter = 100
    /\ ~NoNegativeDet(cmesh, var)

===========================================================================
